---- MODULE Spec2Model ----
(***************************************************************************)
(* Model of solarman.py: the poll scheduler (__main__), one cycle (run),   *)
(* the token and telemetry fetches, the attribute flattening               *)
(* (restruct_and_separate_current_data), the MQTT publication and the      *)
(* SIGINT handler.                                                         *)
(*                                                                         *)
(* Python values are tagged records: [k |-> "int", v |-> n],               *)
(* [k |-> "bool", v |-> b], [k |-> "str", v |-> s],                        *)
(* [k |-> "list", v |-> seq], [k |-> "dict", v |-> function], and None     *)
(* (also the decoding of JSON null) is [k |-> "none"].                     *)
(* A topic "<topic>/<part>/<field>" is the tuple <<topic, part, field>>.   *)
(***************************************************************************)
EXTENDS Integers, Sequences, FiniteSets, TLC

\* number of cycles the repeating scheduler is followed for
MaxCycles == 2

VARIABLES
    mode,                   \* sys.argv: "single" (no argument), "repeat", "other"
    pc,                     \* position of the main thread
    cycle,                  \* number of calls of run() so far
    token,                  \* run: token
    station_data,           \* run: station_data
    inverter_data,          \* run: inverter_data
    logger_data,            \* run: logger_data
    inverter_data_list,     \* run: inverter_data_list
    logger_data_list,       \* run: logger_data_list
    inverter_device_state,  \* run: inverter_device_state
    todo,                   \* the publish calls of lines 217-248 still to be executed
    published,              \* messages handed to client.publish in this cycle, with status
    calls,                  \* functions called in this cycle, in order
    connected,              \* clients connected by connect_mqtt and never disconnected
    loops,                  \* clients whose network loop is running
    exitCode,               \* process exit code, -1 while the process runs
    endedBy,                \* "none", "normal", "signal", "exception"
    sigAt,                  \* pc at which SIGINT was delivered, "none" before
    client_id,              \* run: client_id
    responses,              \* what the API answered to the requests of this cycle
    prev                    \* responses and publish calls of the cycle before,
                            \* kept by the replaying specification only

vars == <<mode, pc, cycle, token, station_data, inverter_data, logger_data,
          inverter_data_list, logger_data_list, inverter_device_state, todo,
          published, calls, connected, loops, exitCode, endedBy, sigAt,
          client_id, responses, prev>>

locals == <<token, station_data, inverter_data, logger_data,
            inverter_data_list, logger_data_list, inverter_device_state, todo>>

----------------------------------------------------------------------------
(* Python values *)

None == [k |-> "none"]
Unset == [k |-> "unset"]
IntV(n) == [k |-> "int", v |-> n]
BoolV(b) == [k |-> "bool", v |-> b]
StrV(s) == [k |-> "str", v |-> s]
ListV(s) == [k |-> "list", v |-> s]
DictV(f) == [k |-> "dict", v |-> f]

IsNone(x) == x.k = "none"

\* truth value of a Python object, as tested by `if value`
Truthy(x) ==
    CASE x.k = "int" -> x.v # 0
      [] x.k = "bool" -> x.v
      [] x.k = "str" -> x.v # ""
      [] x.k = "list" -> Len(x.v) > 0
      [] x.k = "dict" -> DOMAIN x.v # {}
      [] OTHER -> FALSE

\* x == 1 in Python (True == 1 holds as well)
EqualsOne(x) ==
    \/ x.k = "int" /\ x.v = 1
    \/ x.k = "bool" /\ x.v

\* d without the key f (del d[f])
Del(d, f) == [x \in DOMAIN d \ {f} |-> d[x]]

\* d with d[f] = val
Put(d, f, val) == [x \in DOMAIN d \cup {f} |-> IF x = f THEN val ELSE d[x]]

----------------------------------------------------------------------------
(* Upstream responses the model draws from *)

topic == "solarman"

ErrorResponse == [k |-> "error"]
Json(d) == [k |-> "json", v |-> DictV(d)]

\* no request of the cycle has been answered yet
NoResponses == [token |-> Unset, station |-> Unset, inverter |-> Unset, logger |-> Unset]

\* generate_client_id: ten letters and digits
ClientIds == {StrV("a1B2c3D4e5"), StrV("Zz9Yy8Xx7W")}

TokenResponses ==
    { ErrorResponse,
      Json([msg |-> StrV("auth invalid"), success |-> BoolV(FALSE)]),
      Json([access_token |-> StrV("tok"), success |-> BoolV(TRUE)]) }

\* key order of the JSON documents, as iterated by dict.items()
FieldOrder == <<"code", "success", "generationPower", "deviceState", "dataList">>

\* a device document that carries dataList before deviceState
DataListFirst == <<"code", "success", "generationPower", "dataList", "deviceState">>

StationResponses ==
    { ErrorResponse,
      Json([code |-> IntV(1), success |-> BoolV(TRUE)]),
      Json([code |-> IntV(1), success |-> BoolV(TRUE), generationPower |-> IntV(0)]),
      Json([code |-> IntV(1), success |-> BoolV(TRUE), generationPower |-> IntV(5)]) }

\* attribute names are sequences of characters or character runs
OutputPower == <<"Output", " ", "Power">>
SN == <<"SN">>
TotalACOutput == <<"Total", " ", "AC", " ", "Output">>

MalformedLists ==
    { <<[name |-> OutputPower, value |-> IntV(500)]>>,
      <<[key |-> "k1", name |-> OutputPower, value |-> IntV(500)],
        [key |-> "k2", value |-> IntV(7)]>>,
      <<[key |-> "k1", name |-> SN]>> }

DataLists ==
    { <<>>,
      <<[key |-> "k1", name |-> OutputPower, value |-> IntV(500)]>>,
      <<[key |-> "k1", name |-> OutputPower, value |-> IntV(500)],
        [key |-> "k2", name |-> TotalACOutput, value |-> IntV(0)]>> }
    \cup MalformedLists

DeviceStates == {None, IntV(0), IntV(1), IntV(2)}

DeviceDicts ==
    LET base == [success |-> BoolV(TRUE)]
        withState == {base} \cup {Put(base, "deviceState", s) : s \in DeviceStates}
    IN  withState \cup {Put(d, "dataList", ListV(l)) : d \in withState, l \in DataLists}

DeviceResponses ==
    {ErrorResponse}
    \cup {Json(d) : d \in DeviceDicts}
    \cup {[k |-> "json", v |-> [k |-> "dict", v |-> d, o |-> DataListFirst]] :
             d \in {e \in DeviceDicts :
                       /\ "dataList" \in DOMAIN e
                       /\ e["dataList"].v \in MalformedLists
                       /\ "deviceState" \in DOMAIN e
                       /\ e["deviceState"] = IntV(1)}}

----------------------------------------------------------------------------
(* get_token, get_station_realtime, get_device_current_data *)

\* data["access_token"] of the decoded response; any exception gives None
get_token(res) ==
    IF res.k = "json" /\ "access_token" \in DOMAIN res.v.v
    THEN res.v.v["access_token"]
    ELSE None

\* the decoded response; any exception gives None
get_station_realtime(res) == IF res.k = "json" THEN res.v ELSE None

get_device_current_data(res) == IF res.k = "json" THEN res.v ELSE None

----------------------------------------------------------------------------
(* restruct_and_separate_current_data *)

\* the name left as it is
Replace_Identity(name) == name

\* name.replace(" ", "_")
Replace(name) == [i \in DOMAIN name |-> IF name[i] = " " THEN "_" ELSE name[i]]

\* the for loop over data_list from record i on: the records as mutated, the
\* mapping built so far, and whether a KeyError ended the loop
RECURSIVE FlattenLoop(_, _, _)
FlattenLoop(list, i, acc) ==
    IF i > Len(list) THEN [ok |-> TRUE, list |-> list, new |-> acc]
    ELSE LET r0 == list[i] IN
         IF "key" \notin DOMAIN r0
         THEN [ok |-> FALSE, list |-> list, new |-> acc]
         ELSE LET r1 == Del(r0, "key") IN
              IF "name" \notin DOMAIN r1
              THEN [ok |-> FALSE, list |-> [list EXCEPT ![i] = r1], new |-> acc]
              ELSE LET name == Replace(r1["name"])
                       r2 == Del(r1, "name")
                   IN  IF "value" \notin DOMAIN r2
                       THEN [ok |-> FALSE, list |-> [list EXCEPT ![i] = r2], new |-> acc]
                       ELSE FlattenLoop([list EXCEPT ![i] = r2], i + 1,
                                        Put(acc, name, r2["value"]))

\* the returned value and the argument as the call leaves it
restruct_and_separate_current_data(data) ==
    IF data.k # "dict" \/ "dataList" \notin DOMAIN data.v
    THEN [ret |-> None, data |-> data]
    ELSE IF ~Truthy(data.v["dataList"])
    THEN [ret |-> DictV(<<>>), data |-> data]
    ELSE LET r == FlattenLoop(data.v["dataList"].v, 1, <<>>) IN
         IF r.ok
         THEN [ret |-> DictV(r.new), data |-> [data EXCEPT !.v = Del(data.v, "dataList")]]
         ELSE [ret |-> None,
               data |-> [data EXCEPT !.v = Put(data.v, "dataList", ListV(r.list))]]

----------------------------------------------------------------------------
(* publish and the publication section of run *)

discard == {"code", "msg", "requestId", "success"}

\* the key order of a decoded document: its own when it carries one
KeyOrder(data) == IF "o" \in DOMAIN data THEN data.o ELSE FieldOrder

\* the keys of dict d in the order given
RECURSIVE KeysFrom(_, _)
KeysFrom(d, order) ==
    IF order = <<>> THEN <<>>
    ELSE (IF Head(order) \in DOMAIN d THEN <<Head(order)>> ELSE <<>>)
         \o KeysFrom(d, Tail(order))

\* the keys of a dict in document order, as dict.items() yields them
Keys(data) == KeysFrom(data.v, KeyOrder(data))

\* json.dumps of a flattened mapping: a string, here tagged with what it encodes
json_dumps(x) == [k |-> "str", json |-> x.v]

PublishCall(part, field, payload) ==
    [op |-> "publish", topic |-> <<topic, part, field>>, payload |-> payload]

RaiseCall(error) == [op |-> "raise", error |-> error]

\* the filter without the metadata test
ShouldPublish_NoDiscard(i, value) == Truthy(value)

\* `if value and i not in discard`
ShouldPublish(i, value) == Truthy(value) /\ i \notin discard

\* `for i, value in data.items(): if ...: publish(...)`
RECURSIVE ItemCalls(_, _, _)
ItemCalls(part, d, keys) ==
    IF keys = <<>> THEN <<>>
    ELSE (IF ShouldPublish(Head(keys), d[Head(keys)])
          THEN <<PublishCall(part, Head(keys), d[Head(keys)])>>
          ELSE <<>>) \o ItemCalls(part, d, Tail(keys))

FieldCalls(part, data) ==
    IF data.k # "dict" THEN <<RaiseCall("AttributeError")>>
    ELSE ItemCalls(part, data.v, Keys(data))

\* the attributes published whenever the transform returned a mapping
AttributeCalls_NotNone(part, data_list) ==
    IF data_list.k = "dict"
    THEN <<PublishCall(part, "attributes", json_dumps(data_list))>>
    ELSE <<>>

\* `if data_list: publish(..., json.dumps(data_list), ...)`
AttributeCalls(part, data_list) ==
    IF Truthy(data_list)
    THEN <<PublishCall(part, "attributes", json_dumps(data_list))>>
    ELSE <<>>

\* `publish(client, f"{topic}/<part>/deviceState", data["deviceState"], ...)`
StateCall(part, data) ==
    IF data.k # "dict" THEN RaiseCall("TypeError")
    ELSE IF "deviceState" \notin DOMAIN data.v THEN RaiseCall("KeyError")
    ELSE PublishCall(part, "deviceState", data.v["deviceState"])

\* the statements of lines 217-248 in execution order
PublishCalls(state, station, inverter, logger, inverter_list, logger_list) ==
    IF EqualsOne(state)
    THEN FieldCalls("station", station)
         \o FieldCalls("inverter", inverter)
         \o AttributeCalls("inverter", inverter_list)
         \o FieldCalls("logger", logger)
         \o AttributeCalls("logger", logger_list)
    ELSE <<StateCall("inverter", inverter), StateCall("logger", logger)>>

\* line 211
InverterDeviceState(inverter) ==
    IF inverter.k = "dict" /\ "deviceState" \in DOMAIN inverter.v
    THEN inverter.v["deviceState"]
    ELSE None

\* the gate testing the inverter state only
AbortCycle_InverterOnly(state, station, logger) == IsNone(state)

\* line 213
AbortCycle(state, station, logger) ==
    IsNone(state) \/ IsNone(station) \/ IsNone(logger) \/ IsNone(station)

\* client.publish accepts str, bytes, int, float and None payloads
PayloadAccepted(payload) == payload.k \in {"str", "int", "bool", "none"}

----------------------------------------------------------------------------
(* The process *)

Init ==
    /\ mode \in {"single", "repeat", "other"}
    /\ pc = "Main"
    /\ cycle = 0
    /\ token = Unset
    /\ station_data = Unset
    /\ inverter_data = Unset
    /\ logger_data = Unset
    /\ inverter_data_list = Unset
    /\ logger_data_list = Unset
    /\ inverter_device_state = Unset
    /\ todo = <<>>
    /\ published = <<>>
    /\ calls = <<>>
    /\ connected = 0
    /\ loops = 0
    /\ exitCode = -1
    /\ endedBy = "none"
    /\ sigAt = "none"
    /\ client_id = Unset
    /\ responses = NoResponses
    /\ prev = Unset

\* a call of run that keeps the messages of the call before
EnterRun_KeepPublished ==
    /\ pc' = "GetToken"
    /\ cycle' = cycle + 1
    /\ token' = Unset
    /\ station_data' = Unset
    /\ inverter_data' = Unset
    /\ logger_data' = Unset
    /\ inverter_data_list' = Unset
    /\ logger_data_list' = Unset
    /\ inverter_device_state' = Unset
    /\ todo' = <<>>
    /\ published' = published
    /\ calls' = <<>>
    /\ client_id' = Unset
    /\ responses' = NoResponses

\* a call of run(config): fresh locals
EnterRun ==
    /\ pc' = "GetToken"
    /\ cycle' = cycle + 1
    /\ token' = Unset
    /\ station_data' = Unset
    /\ inverter_data' = Unset
    /\ logger_data' = Unset
    /\ inverter_data_list' = Unset
    /\ logger_data_list' = Unset
    /\ inverter_device_state' = Unset
    /\ todo' = <<>>
    /\ published' = <<>>
    /\ calls' = <<>>
    /\ client_id' = Unset
    /\ responses' = NoResponses

\* the process ends: sys.exit or an exception nothing catches
Terminate(code, why) ==
    /\ pc' = "Terminated"
    /\ exitCode' = code
    /\ endedBy' = why

\* lines 266-269 and 274-276: --repeat or no argument
StartRun ==
    /\ pc = "Main"
    /\ mode \in {"single", "repeat"}
    /\ EnterRun
    /\ UNCHANGED <<mode, connected, loops, exitCode, endedBy, sigAt,
                   prev>>

\* lines 272-273: any other argument
UsageError ==
    /\ pc = "Main"
    /\ mode = "other"
    /\ pc' = "Exiting"
    /\ UNCHANGED <<mode, cycle, locals, published, calls, connected, loops,
                   exitCode, endedBy, sigAt,
                   client_id, responses, prev>>

\* get_token that hands out a token whatever the response
AfterToken_NoCheck(tok) == "FetchStation"

\* lines 173-175: `if token is None: return`
AfterToken(tok) == IF IsNone(tok) THEN "Return" ELSE "FetchStation"

\* lines 171-175
GetToken ==
    /\ pc = "GetToken"
    /\ \E res \in TokenResponses :
         /\ token' = get_token(res)
         /\ responses' = [responses EXCEPT !.token = res]
         /\ pc' = AfterToken(token')
    /\ calls' = Append(calls, "get_token")
    /\ UNCHANGED <<mode, cycle, station_data, inverter_data, logger_data,
                   inverter_data_list, logger_data_list, inverter_device_state,
                   todo, published, connected, loops, exitCode, endedBy, sigAt,
                   client_id, prev>>

\* a station fetch whose failure ends the cycle at once
FetchStation_ReturnOnFailure ==
    /\ pc = "FetchStation"
    /\ \E res \in StationResponses :
         /\ station_data' = get_station_realtime(res)
         /\ responses' = [responses EXCEPT !.station = res]
    /\ calls' = Append(calls, "get_station_realtime")
    /\ pc' = IF IsNone(station_data') THEN "Return" ELSE "FetchInverter"
    /\ UNCHANGED <<mode, cycle, token, inverter_data, logger_data,
                   inverter_data_list, logger_data_list, inverter_device_state,
                   todo, published, connected, loops, exitCode, endedBy, sigAt,
                   client_id, prev>>

\* line 180
FetchStation ==
    /\ pc = "FetchStation"
    /\ \E res \in StationResponses :
         /\ station_data' = get_station_realtime(res)
         /\ responses' = [responses EXCEPT !.station = res]
    /\ calls' = Append(calls, "get_station_realtime")
    /\ pc' = "FetchInverter"
    /\ UNCHANGED <<mode, cycle, token, inverter_data, logger_data,
                   inverter_data_list, logger_data_list, inverter_device_state,
                   todo, published, connected, loops, exitCode, endedBy, sigAt,
                   client_id, prev>>

\* line 181
FetchInverter ==
    /\ pc = "FetchInverter"
    /\ \E res \in DeviceResponses :
         /\ inverter_data' = get_device_current_data(res)
         /\ responses' = [responses EXCEPT !.inverter = res]
    /\ calls' = Append(calls, "get_device_current_data(inverterId)")
    /\ pc' = "FetchLogger"
    /\ UNCHANGED <<mode, cycle, token, station_data, logger_data,
                   inverter_data_list, logger_data_list, inverter_device_state,
                   todo, published, connected, loops, exitCode, endedBy, sigAt,
                   client_id, prev>>

\* line 182
FetchLogger ==
    /\ pc = "FetchLogger"
    /\ \E res \in DeviceResponses :
         /\ logger_data' = get_device_current_data(res)
         /\ responses' = [responses EXCEPT !.logger = res]
    /\ calls' = Append(calls, "get_device_current_data(loggerId)")
    /\ pc' = "FlattenInverter"
    /\ UNCHANGED <<mode, cycle, token, station_data, inverter_data,
                   inverter_data_list, logger_data_list, inverter_device_state,
                   todo, published, connected, loops, exitCode, endedBy, sigAt,
                   client_id, prev>>

\* line 184
FlattenInverter ==
    /\ pc = "FlattenInverter"
    /\ LET r == restruct_and_separate_current_data(inverter_data) IN
         /\ inverter_data_list' = r.ret
         /\ inverter_data' = r.data
    /\ calls' = Append(calls, "restruct_and_separate_current_data(Inverter)")
    /\ pc' = "FlattenLogger"
    /\ UNCHANGED <<mode, cycle, token, station_data, logger_data,
                   logger_data_list, inverter_device_state,
                   todo, published, connected, loops, exitCode, endedBy, sigAt,
                   client_id, responses, prev>>

\* line 185
FlattenLogger ==
    /\ pc = "FlattenLogger"
    /\ LET r == restruct_and_separate_current_data(logger_data) IN
         /\ logger_data_list' = r.ret
         /\ logger_data' = r.data
    /\ calls' = Append(calls, "restruct_and_separate_current_data(Logger)")
    /\ pc' = "Connect"
    /\ UNCHANGED <<mode, cycle, token, station_data, inverter_data,
                   inverter_data_list, inverter_device_state,
                   todo, published, connected, loops, exitCode, endedBy, sigAt,
                   client_id, responses, prev>>

\* lines 206-209: connect_mqtt and client.loop_start()
Connect ==
    /\ pc = "Connect"
    /\ client_id' \in ClientIds
    /\ connected' = connected + 1
    /\ loops' = loops + 1
    /\ calls' = calls \o <<"connect_mqtt", "loop_start">>
    /\ pc' = "Gate"
    /\ UNCHANGED <<mode, cycle, token, station_data, inverter_data, logger_data,
                   inverter_data_list, logger_data_list, inverter_device_state,
                   todo, published, exitCode, endedBy, sigAt,
                   responses, prev>>

\* lines 146-149: client.connect raises when the broker cannot be reached,
\* and nothing catches it
ConnectRaises ==
    /\ pc = "Connect"
    /\ client_id' \in ClientIds
    /\ calls' = Append(calls, "connect_mqtt")
    /\ Terminate(1, "exception")
    /\ UNCHANGED <<mode, cycle, locals, published, connected, loops, sigAt,
                   responses, prev>>

\* lines 211-217 and 244: the gate
Gate ==
    /\ pc = "Gate"
    /\ inverter_device_state' = InverterDeviceState(inverter_data)
    /\ IF AbortCycle(inverter_device_state', station_data, logger_data)
       THEN /\ pc' = "Return"
            /\ todo' = <<>>
       ELSE /\ pc' = "Publishing"
            /\ todo' = PublishCalls(inverter_device_state', station_data,
                                    inverter_data, logger_data,
                                    inverter_data_list, logger_data_list)
    /\ UNCHANGED <<mode, cycle, token, station_data, inverter_data, logger_data,
                   inverter_data_list, logger_data_list, published, calls,
                   connected, loops, exitCode, endedBy, sigAt,
                   client_id, responses, prev>>

\* a publish that gives up the cycle's later messages on a failed status
AfterPublish_AbortOnFailure(status, rest) == IF status = 0 THEN rest ELSE <<>>

\* lines 154-159: the status is only printed
AfterPublish(status, rest) == rest

\* lines 152-159: one call of publish, whatever status client.publish returns
Publish ==
    /\ pc = "Publishing"
    /\ todo # <<>>
    /\ Head(todo).op = "publish"
    /\ PayloadAccepted(Head(todo).payload)
    /\ \E status \in {0, 1} :
         /\ published' = Append(published, [topic |-> Head(todo).topic,
                                            payload |-> Head(todo).payload,
                                            status |-> status])
         /\ todo' = AfterPublish(status, Tail(todo))
    /\ UNCHANGED <<mode, pc, cycle, token, station_data, inverter_data, logger_data,
                   inverter_data_list, logger_data_list, inverter_device_state,
                   calls, connected, loops, exitCode, endedBy, sigAt,
                   client_id, responses, prev>>

\* line 153: client.publish raises TypeError for a list or dict payload
PublishRaises ==
    /\ pc = "Publishing"
    /\ todo # <<>>
    /\ Head(todo).op = "publish"
    /\ ~PayloadAccepted(Head(todo).payload)
    /\ Terminate(1, "exception")
    /\ UNCHANGED <<mode, cycle, locals, published, calls, connected, loops, sigAt,
                   client_id, responses, prev>>

\* lines 221-247: a subscript or .items() that raises, and nothing catches it
RunRaises ==
    /\ pc = "Publishing"
    /\ todo # <<>>
    /\ Head(todo).op = "raise"
    /\ Terminate(1, "exception")
    /\ UNCHANGED <<mode, cycle, locals, published, calls, connected, loops, sigAt,
                   client_id, responses, prev>>

\* line 250
LoopStop ==
    /\ pc = "Publishing"
    /\ todo = <<>>
    /\ loops' = loops - 1
    /\ calls' = Append(calls, "loop_stop")
    /\ pc' = "Return"
    /\ UNCHANGED <<mode, cycle, locals, published, connected, exitCode, endedBy, sigAt,
                   client_id, responses, prev>>

\* lines 269-271 and 276, 282: run has returned
Return ==
    /\ pc = "Return"
    /\ pc' = IF mode = "repeat" THEN "Waiting" ELSE "Exiting"
    /\ UNCHANGED <<mode, cycle, locals, published, calls, connected, loops,
                   exitCode, endedBy, sigAt,
                   client_id, responses, prev>>

\* lines 268-271: time.sleep(interval) is over, the loop calls run again
WakeUp ==
    /\ pc = "Waiting"
    /\ cycle < MaxCycles
    /\ EnterRun
    /\ UNCHANGED <<mode, connected, loops, exitCode, endedBy, sigAt,
                   prev>>

\* lines 282-284
Exit ==
    /\ pc = "Exiting"
    /\ Terminate(0, "normal")
    /\ UNCHANGED <<mode, cycle, locals, published, calls, connected, loops, sigAt,
                   client_id, responses, prev>>

\* a handler that notes the signal and returns
signal_handler_NoExit ==
    /\ pc # "Terminated"
    /\ sigAt' = pc
    /\ UNCHANGED <<mode, pc, cycle, locals, published, calls, connected, loops,
                   exitCode, endedBy,
                   client_id, responses, prev>>

\* lines 20-25: SIGINT reaches the main thread wherever it is; sys.exit(0)
\* raises SystemExit, which `except Exception` does not catch
signal_handler ==
    /\ pc # "Terminated"
    /\ sigAt' = pc
    /\ Terminate(0, "signal")
    /\ UNCHANGED <<mode, cycle, locals, published, calls, connected, loops,
                   client_id, responses, prev>>

Next ==
    \/ StartRun
    \/ UsageError
    \/ GetToken
    \/ FetchStation
    \/ FetchInverter
    \/ FetchLogger
    \/ FlattenInverter
    \/ FlattenLogger
    \/ Connect
    \/ ConnectRaises
    \/ Gate
    \/ Publish
    \/ PublishRaises
    \/ RunRaises
    \/ LoopStop
    \/ Return
    \/ WakeUp
    \/ Exit
    \/ signal_handler

Spec == Init /\ [][Next]_vars

----------------------------------------------------------------------------
(* The repeating process with the same upstream responses in every cycle *)

\* the publish calls of a cycle without their status
OutputOf(pub) ==
    [i \in DOMAIN pub |-> [topic |-> pub[i].topic, payload |-> pub[i].payload]]

\* from the second cycle on the API answers as in the cycle before
Replays(request) == cycle > 1 => responses'[request] = prev.responses[request]

InitReplay == Init /\ mode = "repeat"

ReplayGetToken == GetToken /\ Replays("token")

ReplayFetchStation == FetchStation /\ Replays("station")

ReplayFetchInverter == FetchInverter /\ Replays("inverter")

ReplayFetchLogger == FetchLogger /\ Replays("logger")

\* lines 268-271, remembering the cycle that has just returned
RecordAndWakeUp ==
    /\ pc = "Waiting"
    /\ cycle < MaxCycles
    /\ EnterRun
    /\ prev' = [responses |-> responses, out |-> OutputOf(published),
                client_id |-> client_id]
    /\ UNCHANGED <<mode, connected, loops, exitCode, endedBy, sigAt>>

NextReplay ==
    \/ StartRun
    \/ ReplayGetToken
    \/ ReplayFetchStation
    \/ ReplayFetchInverter
    \/ ReplayFetchLogger
    \/ FlattenInverter
    \/ FlattenLogger
    \/ Connect
    \/ ConnectRaises
    \/ Gate
    \/ Publish
    \/ PublishRaises
    \/ RunRaises
    \/ LoopStop
    \/ Return
    \/ RecordAndWakeUp
    \/ signal_handler

SpecReplay == InitReplay /\ [][NextReplay]_vars

TypeOK ==
    /\ mode \in {"single", "repeat", "other"}
    /\ pc \in {"Main", "GetToken", "FetchStation", "FetchInverter", "FetchLogger",
               "FlattenInverter", "FlattenLogger", "Connect", "Gate", "Publishing",
               "Return", "Waiting", "Exiting", "Terminated"}
    /\ cycle \in 0..MaxCycles
    /\ exitCode \in {-1, 0, 1}
    /\ endedBy \in {"none", "normal", "signal", "exception"}

----------------------------------------------------------------------------
(* Properties *)

PublishedTopics == {published[i].topic : i \in DOMAIN published}

PublishedMessages ==
    {[topic |-> published[i].topic, payload |-> published[i].payload] :
        i \in DOMAIN published}

Called(f) == \E i \in DOMAIN calls : calls[i] = f

AllPresent ==
    station_data.k = "dict" /\ inverter_data.k = "dict" /\ logger_data.k = "dict"

AnyFetchAbsent ==
    IsNone(station_data) \/ IsNone(inverter_data) \/ IsNone(logger_data)

\* the cycle has run to its end with the bus connected: run returned or an
\* exception ended it (not SIGINT, not an unreachable broker)
CycleOver ==
    /\ Called("loop_start")
    /\ \/ pc \in {"Return", "Waiting", "Exiting"}
       \/ pc = "Terminated" /\ endedBy \in {"normal", "exception"}

\* C1: in a cycle where the station, inverter or logger fetch gave no result,
\* the publication section is never entered and no message is published.
C1_NoPublicationWhenFetchFails ==
    AnyFetchAbsent => published = <<>> /\ todo = <<>> /\ pc # "Publishing"

C1_Witness ==
    /\ pc = "Return"
    /\ Called("loop_start")
    /\ IsNone(station_data)
    /\ inverter_data.k = "dict"
    /\ EqualsOne(inverter_device_state)
    /\ logger_data.k = "dict"
    /\ published = <<>>

\* C2: a cycle never ends by an uncaught error, whatever the upstream
\* responses and publish statuses (the broker being reachable).
C2_NoUncaughtError == ~(endedBy = "exception" /\ Called("loop_start"))

\* C3: a completed cycle with all three snapshots and an inverter deviceState
\* that is an integer other than 1 has published exactly inverter/deviceState
\* and logger/deviceState.
C3_OfflinePublishesTwo ==
    ( /\ CycleOver
      /\ AllPresent
      /\ "deviceState" \in DOMAIN inverter_data.v
      /\ inverter_data.v["deviceState"].k = "int"
      /\ inverter_data.v["deviceState"].v # 1 )
    => [i \in DOMAIN published |-> published[i].topic]
         = << <<topic, "inverter", "deviceState">>, <<topic, "logger", "deviceState">> >>

\* the field messages the publication policy names for a snapshot
ExpectedFieldMessages(part, data) ==
    {[topic |-> <<topic, part, f>>, payload |-> data.v[f]] :
        f \in {g \in DOMAIN data.v : g \notin discard /\ Truthy(data.v[g])}}

ExpectedAttributeMessages(part, data_list) ==
    IF Truthy(data_list)
    THEN {[topic |-> <<topic, part, "attributes">>, payload |-> json_dumps(data_list)]}
    ELSE {}

InverterStateIsOne ==
    /\ inverter_data.k = "dict"
    /\ "deviceState" \in DOMAIN inverter_data.v
    /\ inverter_data.v["deviceState"] = IntV(1)

\* C4: a completed cycle with all three snapshots and inverter deviceState 1
\* has published exactly the non-empty non-metadata fields of the station,
\* inverter and logger snapshots, each with its value, and the serialized
\* flattened attributes of each device whose flattened mapping is non-empty.
C4_OnlinePublishesAll ==
    (CycleOver /\ AllPresent /\ InverterStateIsOne)
    => PublishedMessages =
           ExpectedFieldMessages("station", station_data)
           \cup ExpectedFieldMessages("inverter", inverter_data)
           \cup ExpectedAttributeMessages("inverter", inverter_data_list)
           \cup ExpectedFieldMessages("logger", logger_data)
           \cup ExpectedAttributeMessages("logger", logger_data_list)

IsFieldTopic(t) == t[3] # "attributes"

\* C5: no message is ever published on a field topic whose field is code,
\* msg, requestId or success, or whose value is falsy, in either branch.
C5_NoMetadataNoFalsy ==
    \A i \in DOMAIN published :
        IsFieldTopic(published[i].topic)
        => published[i].topic[3] \notin discard /\ Truthy(published[i].payload)

\* C5 as amended: no message is ever published on a field topic whose field is
\* code, msg, requestId or success; none with a falsy value is published in
\* the online branch; the two deviceState messages of the offline branch are
\* published whatever their value.
C5_NoMetadataFalsyOnlyOffline ==
    \A i \in DOMAIN published :
        IsFieldTopic(published[i].topic)
        => /\ published[i].topic[3] \notin discard
           /\ \/ Truthy(published[i].payload)
              \/ /\ ~EqualsOne(inverter_device_state)
                 /\ published[i].topic[3] = "deviceState"

C5_Witness ==
    /\ pc = "Return"
    /\ Called("loop_stop")
    /\ EqualsOne(inverter_device_state)
    /\ "generationPower" \in DOMAIN station_data.v
    /\ ~Truthy(station_data.v["generationPower"])
    /\ "success" \in DOMAIN station_data.v
    /\ Truthy(station_data.v["success"])
    /\ PublishedTopics = {<<topic, "inverter", "deviceState">>,
                          <<topic, "logger", "deviceState">>}

\* C6: when get_token gives no token it was called once, nothing else is called
\* in the cycle (no fetch, no connection), nothing is published, and the
\* scheduler goes on to the wait (repeating) or to the normal exit (one-shot).
C6_TokenFailureAbortsCycle ==
    IsNone(token)
    => /\ calls = <<"get_token">>
       /\ published = <<>>
       /\ station_data = Unset /\ inverter_data = Unset /\ logger_data = Unset
       /\ pc \in {"Return", "Waiting", "Exiting", "Terminated"}
       /\ pc = "Waiting" => mode = "repeat"
       /\ pc = "Exiting" => mode = "single"
       /\ pc = "Terminated" => endedBy \in {"normal", "signal"}

C6_Witness ==
    /\ IsNone(token)
    /\ pc = "Waiting"
    /\ cycle = 2
    /\ calls = <<"get_token">>

\* C7: in repeating mode the process ends only through the signal (the broker
\* being reachable).
C7_OnlySignalTerminates ==
    (mode = "repeat" /\ pc = "Terminated" /\ Called("loop_start"))
    => endedBy = "signal"

\* C8: when a cycle is over no connection and no network loop is open, and at
\* most one of each is open at any time.
C8_ConnectionClosedEachCycle ==
    /\ pc \in {"Return", "Waiting", "Exiting"} => connected = 0 /\ loops = 0
    /\ connected <= 1
    /\ loops <= 1

\* C9: in repeating mode a signal delivered during the wait ends the process
\* with exit code 0, and no cycle is started, nothing is called and nothing is
\* published after it.
C9_SignalInWaitTerminates ==
    /\ [](sigAt = "Waiting"
           => mode = "repeat" /\ pc = "Terminated" /\ exitCode = 0 /\ endedBy = "signal")
    /\ [][sigAt = "Waiting"
            => cycle' = cycle /\ calls' = calls /\ published' = published]_vars

C9_Witness ==
    /\ sigAt = "Waiting"
    /\ pc = "Terminated"
    /\ cycle = 1
    /\ published # <<>>

\* C10: a signal never ends the process between two publications of a
\* cycle: when the process was ended by the signal after some message of the
\* cycle was published, no further publication of the cycle was pending.
C10_NoTerminationMidPublish ==
    (endedBy = "signal" /\ published # <<>> /\ todo # <<>>)
    => ~(Head(todo).op = "publish" /\ PayloadAccepted(Head(todo).payload))

\* C11: with no argument exactly one cycle is run and the process then ends
\* with exit code 0; with --repeat the process never goes to the final exit;
\* with any other argument no cycle is run: no authentication, fetch,
\* connection or publication (SIGINT and an unreachable broker set aside).
C11_ModeSelection ==
    /\ ( /\ mode = "single"
         /\ pc = "Terminated"
         /\ endedBy # "signal"
         /\ endedBy = "exception" => Called("loop_start") )
       => cycle = 1 /\ exitCode = 0
    /\ mode = "single" => cycle <= 1
    /\ mode = "repeat" => pc # "Exiting"
    /\ mode = "other"
       => cycle = 0 /\ calls = <<>> /\ published = <<>> /\ connected = 0
          /\ token = Unset

\* the snapshot as a successful Flatten leaves it
WithoutDataList(data) == [data EXCEPT !.v = Del(data.v, "dataList")]

\* C12: in a completed online cycle where Flatten failed for the inverter or
\* the logger, the field messages published are those of the station and of
\* both devices as after a successful Flatten, the failed device has no
\* attributes message and the other device has its own.
C12_TransformFailureKeepsFields ==
    ( /\ CycleOver
      /\ AllPresent
      /\ InverterStateIsOne
      /\ IsNone(inverter_data_list) \/ IsNone(logger_data_list) )
    => /\ {m \in PublishedMessages : IsFieldTopic(m.topic)}
            = ExpectedFieldMessages("station", station_data)
              \cup ExpectedFieldMessages("inverter", WithoutDataList(inverter_data))
              \cup ExpectedFieldMessages("logger", WithoutDataList(logger_data))
       /\ IsNone(inverter_data_list)
            => <<topic, "inverter", "attributes">> \notin PublishedTopics
       /\ IsNone(logger_data_list)
            => <<topic, "logger", "attributes">> \notin PublishedTopics
       /\ Truthy(inverter_data_list)
            => <<topic, "inverter", "attributes">> \in PublishedTopics
       /\ Truthy(logger_data_list)
            => <<topic, "logger", "attributes">> \in PublishedTopics

\* the call of publish that client.publish ended by raising
RaisedInPublish ==
    /\ endedBy = "exception"
    /\ todo # <<>>
    /\ Head(todo).op = "publish"

PublishedCalls ==
    [i \in DOMAIN published |->
        PublishCall(published[i].topic[2], published[i].topic[3], published[i].payload)]

\* C17: whatever statuses client.publish returned, the calls of publish made
\* so far followed by those still to be made are the calls the snapshots
\* determine: a failed status drops no later call and repeats none.
C17_PublishFailuresPerMessage ==
    (inverter_device_state # Unset
       /\ ~AbortCycle(inverter_device_state, station_data, logger_data))
    => PublishedCalls \o todo
         = PublishCalls(inverter_device_state, station_data, inverter_data,
                        logger_data, inverter_data_list, logger_data_list)

C17_Witness ==
    /\ pc = "Return"
    /\ Called("loop_stop")
    /\ Len(published) >= 3
    /\ published[1].status = 1
    /\ published[2].status = 0
    /\ published[3].status = 1

FetchNames ==
    { "get_token", "get_station_realtime",
      "get_device_current_data(inverterId)", "get_device_current_data(loggerId)" }

FetchCalls ==
    << "get_token", "get_station_realtime",
       "get_device_current_data(inverterId)", "get_device_current_data(loggerId)" >>

\* C18: in a cycle whose authentication succeeded and that SIGINT did not cut
\* short, the station, inverter and logger fetches are called once each, in
\* that order, right after get_token, whatever the earlier fetches returned.
C18_AllFetchesAttempted ==
    /\ pc = "FetchInverter" => calls = SubSeq(FetchCalls, 1, 2)
    /\ pc = "FetchLogger" => calls = SubSeq(FetchCalls, 1, 3)
    /\ ( /\ token.k = "str"
         /\ endedBy # "signal"
         /\ pc \notin {"FetchStation", "FetchInverter", "FetchLogger"} )
       => /\ Len(calls) >= 4
          /\ SubSeq(calls, 1, 4) = FetchCalls
          /\ \A i \in DOMAIN calls : i > 4 => calls[i] \notin FetchNames
          /\ station_data # Unset /\ inverter_data # Unset /\ logger_data # Unset

C18_Witness ==
    /\ pc = "Return"
    /\ IsNone(station_data)
    /\ IsNone(inverter_data)
    /\ logger_data.k = "dict"
    /\ SubSeq(calls, 1, 4) = FetchCalls

\* C19: a cycle that ran to its end and published at least one message has
\* published <topic>/inverter/deviceState with the inverter snapshot's
\* deviceState, in the online branch as in the offline branch.
C19_InverterStateAlwaysPublished ==
    (CycleOver /\ published # <<>>)
    => \E i \in DOMAIN published :
          /\ published[i].topic = <<topic, "inverter", "deviceState">>
          /\ published[i].payload = inverter_data.v["deviceState"]

IsPrefix(a, b) == Len(a) <= Len(b) /\ a = SubSeq(b, 1, Len(a))

\* C13: a cycle that gets the upstream responses of the cycle before makes
\* the publish calls of that cycle, in the same order and with the same
\* values, and returns as it did; the client id is in no topic or payload.
C13_Idempotent ==
    /\ cycle > 1 => IsPrefix(OutputOf(published), prev.out)
    /\ (cycle > 1 /\ pc \in {"Return", "Waiting"}) => OutputOf(published) = prev.out
    /\ (cycle > 1 /\ endedBy = "exception") => ~Called("loop_start")
    /\ \A i \in DOMAIN published :
          /\ published[i].payload # client_id
          /\ \A j \in 1..3 : StrV(published[i].topic[j]) # client_id

C13_Witness ==
    /\ cycle = 2
    /\ pc = "Return"
    /\ Called("loop_stop")
    /\ Len(published) >= 4
    /\ OutputOf(published) = prev.out
    /\ client_id # prev.client_id
    /\ \E i \in DOMAIN published : published[i].status = 1

\* the dataList of an upstream response, when it carries one
HasDataList(res) ==
    /\ res.k = "json"
    /\ "dataList" \in DOMAIN res.v.v

RawList(res) == res.v.v["dataList"].v

WellFormed(list) ==
    /\ list # <<>>
    /\ \A i \in DOMAIN list : DOMAIN list[i] = {"key", "name", "value"}

\* m is n with every space replaced by an underscore
Underscored(n, m) ==
    /\ Len(m) = Len(n)
    /\ \A i \in DOMAIN n : m[i] = IF n[i] = " " THEN "_" ELSE n[i]

\* the mapping sends each record's name, underscored, to the record's value
FlatOf(list, new) ==
    /\ new.k = "dict"
    /\ \A i \in DOMAIN list :
          \E m \in DOMAIN new.v :
             /\ Underscored(list[i]["name"], m)
             /\ new.v[m] = list[i]["value"]
    /\ \A m \in DOMAIN new.v :
          \E i \in DOMAIN list : Underscored(list[i]["name"], m)

FlattenedWell(res, data, data_list) ==
    (data_list # Unset /\ HasDataList(res) /\ WellFormed(RawList(res))) =>
        /\ FlatOf(RawList(res), data_list)
        /\ data.v = Del(res.v.v, "dataList")
        /\ RawList(res) = <<[key |-> "k1", name |-> OutputPower, value |-> IntV(500)]>>
              => data_list = DictV(<<"Output", "_", "Power">> :> IntV(500))

\* C15: Flatten on a snapshot with a non-empty dataList of well-formed
\* {key, name, value} records returns the mapping from each name, spaces
\* replaced by underscores, to the record's value ("Output Power" with 500
\* gives {"Output_Power": 500}) and leaves the snapshot without dataList.
C15_FlattenWellFormed ==
    /\ FlattenedWell(responses.inverter, inverter_data, inverter_data_list)
    /\ FlattenedWell(responses.logger, logger_data, logger_data_list)

C15_Witness ==
    /\ pc = "Connect"
    /\ HasDataList(responses.inverter)
    /\ Len(RawList(responses.inverter)) = 2
    /\ WellFormed(RawList(responses.inverter))
    /\ inverter_data_list =
          DictV(<<"Output", "_", "Power">> :> IntV(500)
                @@ <<"Total", "_", "AC", "_", "Output">> :> IntV(0))
    /\ "dataList" \notin DOMAIN inverter_data.v
    /\ HasDataList(responses.logger)
    /\ logger_data_list = DictV(<<"Output", "_", "Power">> :> IntV(500))

\* the snapshot is absent, has no dataList, or has an empty one
NothingToFlatten(res) ==
    /\ res # Unset
    /\ \/ res.k = "error"
       \/ ~HasDataList(res)
       \/ RawList(res) = <<>>

AttributesOf(part) == <<topic, part, "attributes">>

NoAttributes(res, data_list, part) ==
    NothingToFlatten(res) =>
        /\ data_list \in {Unset, None, DictV(<<>>)}
        /\ \A i \in DOMAIN published : published[i].topic # AttributesOf(part)
        /\ \A i \in DOMAIN todo :
              todo[i].op = "publish" => todo[i].topic # AttributesOf(part)

\* C16: Flatten never throws past the transform boundary: on an absent
\* snapshot, a snapshot without dataList or one with an empty dataList it
\* returns a failure or an empty result, the cycle goes on to the connection,
\* and no attributes message is published for that device.
C16_NothingToFlatten ==
    /\ NoAttributes(responses.inverter, inverter_data_list, "inverter")
    /\ NoAttributes(responses.logger, logger_data_list, "logger")
    /\ (NothingToFlatten(responses.inverter) \/ NothingToFlatten(responses.logger))
          => (endedBy = "exception" => Called("connect_mqtt"))

C16_Witness ==
    /\ pc = "Return"
    /\ Called("loop_stop")
    /\ EqualsOne(inverter_device_state)
    /\ HasDataList(responses.inverter)
    /\ RawList(responses.inverter) = <<>>
    /\ inverter_data_list = DictV(<<>>)
    /\ responses.logger.k = "json"
    /\ ~HasDataList(responses.logger)
    /\ logger_data_list = None
    /\ published # <<>>

====
